---- MODULE Spec2Model ----
(***************************************************************************)
(* Model of server/server.js: the Socket.IO connection registry            *)
(* (userSockets), the session handlers (user:online, disconnect), the      *)
(* event router (typing:start, typing:stop, message:send, message:read)    *)
(* and the two Mongoose collections the handlers write (User, Message).    *)
(*                                                                         *)
(* Every async handler is cut at its awaits.  The code from the dispatch   *)
(* of the event to the first await is one action; every later action is    *)
(* the awaited store call taking effect together with the code that runs   *)
(* when the await returns, up to the next await.  A store call that        *)
(* rejects is an action of its own.  The handlers in flight are the        *)
(* records of the bag tasks.                                               *)
(*                                                                         *)
(* emitted is the bag of emit calls the handlers have made, one record     *)
(* per addressed connection.  The field live tells whether that            *)
(* connection was open when the call was made: Socket.IO drops a packet    *)
(* addressed to a connection that has closed.                              *)
(***************************************************************************)
EXTENDS Naturals, Sequences, FiniteSets, Bags

VARIABLES process, unhandled, conn, socketUserId, userSockets, isOnline,
          lastSeen, messages, nextId, tasks, emitted, clock, dispatched

vars == <<process, unhandled, conn, socketUserId, userSockets, isOnline,
          lastSeen, messages, nextId, tasks, emitted, clock, dispatched>>

----------------------------------------------------------------------------
(* Bounds of the model: connections ever opened, inbound events ever       *)
(* dispatched, length of the ids the conversation id is checked on.        *)

MaxSockets == 2
MaxEvents == 3
MaxIdLen == 2

----------------------------------------------------------------------------
(* Identifiers.  An id or a message text is a string, modelled as a        *)
(* sequence of character codes.  Sep is '-', which sorts below every       *)
(* character of an id.                                                      *)

Sep == 0
Chars == {1, 2}
UserA == <<1>>
UserB == <<1, 2>>
Users == {UserA, UserB}
NoUser == <<>>

Sockets == 1..MaxSockets
NoSocket == 0

Bodies == {<<>>, <<1>>}

EventNames ==
    {"user:online", "typing:start", "typing:stop", "message:send",
     "message:read"}

RECURSIVE Ids(_)
Ids(n) ==
    IF n = 0 THEN {<<>>}
    ELSE Ids(n - 1) \cup {Append(x, c) : x \in Ids(n - 1), c \in Chars}

(* String comparison by code units, a proper prefix first: the order of    *)
(* Array.prototype.sort without a comparator.                              *)
RECURSIVE StrLess(_, _)
StrLess(x, y) ==
    IF y = <<>> THEN FALSE
    ELSE IF x = <<>> THEN TRUE
    ELSE IF Head(x) < Head(y) THEN TRUE
    ELSE IF Head(x) > Head(y) THEN FALSE
    ELSE StrLess(Tail(x), Tail(y))

SortPairUnsorted(a, b) == <<a, b>>

SortPair(a, b) == IF StrLess(b, a) THEN <<b, a>> ELSE <<a, b>>

Join(p) == p[1] \o <<Sep>> \o p[2]

ConversationId(a, b) == Join(SortPair(a, b))

UsersConversationId(reqUserId, uId) == Join(SortPair(reqUserId, uId))

HistoryConversationId(reqUserId, paramsId) == Join(SortPair(reqUserId, paramsId))

----------------------------------------------------------------------------
(* Records *)

NoMsg ==
    [id |-> 0, conversationId |-> <<>>, senderId |-> NoUser,
     receiverId |-> NoUser, message |-> <<>>, delivered |-> FALSE,
     read |-> FALSE, timestamp |-> 0]

NewMessage(id, senderId, receiverId, body, now) ==
    [id |-> id, conversationId |-> ConversationId(senderId, receiverId),
     senderId |-> senderId, receiverId |-> receiverId, message |-> body,
     delivered |-> FALSE, read |-> FALSE, timestamp |-> now]

Validates(doc) == doc.message # <<>>

Task(kind, phase, s, u, now, msg, messageId) ==
    [kind |-> kind, phase |-> phase, sock |-> s, userId |-> u, now |-> now,
     msg |-> msg, messageId |-> messageId]

Event(type, to, u, online, msg, messageId, from) ==
    [type |-> type, to |-> to, live |-> conn[to] = "open", userId |-> u,
     isOnline |-> online, msg |-> msg, messageId |-> messageId,
     from |-> from]

OpenSockets == {s \in Sockets : conn[s] = "open"}

IoEmitToIdentified(type, u, online) ==
    {Event(type, s, u, online, NoMsg, 0, NoUser) :
        s \in {r \in OpenSockets : socketUserId[r] # NoUser}}

IoEmit(type, u, online) ==
    {Event(type, s, u, online, NoMsg, 0, NoUser) : s \in OpenSockets}

IoTo(type, to, msg, messageId, from) ==
    {Event(type, to, NoUser, FALSE, msg, messageId, from)}

HasId(id) == \E m \in messages : m.id = id

FindById(id) == CHOOSE m \in messages : m.id = id

FindByIdAndUpdate(id, field) ==
    {IF m.id = id THEN [m EXCEPT ![field] = TRUE] ELSE m : m \in messages}

Spawn(t) == tasks (+) SetToBag({t})

Finish(t) == tasks (-) SetToBag({t})

Step(t, phase) == Finish(t) (+) SetToBag({[t EXCEPT !.phase = phase]})

Pending(kind, phase) ==
    {t \in BagToSet(tasks) : t.kind = kind /\ t.phase = phase}

Dispatched ==
    dispatched["user:online"] + dispatched["typing:start"]
    + dispatched["typing:stop"] + dispatched["message:send"]
    + dispatched["message:read"]

(* The dispatch of an inbound event to its handler on an open connection. *)
Dispatch(s, name) ==
    /\ process = "up"
    /\ conn[s] = "open"
    /\ Dispatched < MaxEvents
    /\ dispatched' = [dispatched EXCEPT ![name] = @ + 1]

(* Date.now(): every reading is later than the one before. *)
Now(now) == now = clock + 1 /\ clock' = now

(* A rejection no handler catches.  Node either reports it and goes on or  *)
(* ends the process, by version and flags; the end of the process closes   *)
(* every connection and loses the registry and the handlers in flight.     *)
UnhandledRejection(t) ==
    /\ process = "up"
    /\ unhandled' = unhandled + 1
    /\ \/ /\ process' = "up"
          /\ tasks' = Finish(t)
          /\ UNCHANGED <<conn, socketUserId, userSockets>>
       \/ /\ process' = "down"
          /\ tasks' = EmptyBag
          /\ conn' = [s \in Sockets |->
                         IF conn[s] = "none" THEN "none" ELSE "closed"]
          /\ socketUserId' = [s \in Sockets |-> NoUser]
          /\ userSockets' = [u \in Users |-> NoSocket]
    /\ UNCHANGED <<isOnline, lastSeen, messages, nextId, emitted, clock,
                   dispatched>>

----------------------------------------------------------------------------

Init ==
    /\ process = "up"
    /\ unhandled = 0
    /\ conn = [s \in Sockets |-> "none"]
    /\ socketUserId = [s \in Sockets |-> NoUser]
    /\ userSockets = [u \in Users |-> NoSocket]
    /\ isOnline = [u \in Users |-> FALSE]
    /\ lastSeen = [u \in Users |-> 0]
    /\ messages = {}
    /\ nextId = 1
    /\ tasks = EmptyBag
    /\ emitted = EmptyBag
    /\ clock = 0
    /\ dispatched = [n \in EventNames |-> 0]

(* A client connects; connections take their ids in order. *)
Connection(s) ==
    /\ process = "up"
    /\ conn[s] = "none"
    /\ \A r \in Sockets : r < s => conn[r] # "none"
    /\ conn' = [conn EXCEPT ![s] = "open"]
    /\ UNCHANGED <<process, unhandled, socketUserId, userSockets, isOnline,
                   lastSeen, messages, nextId, tasks, emitted, clock,
                   dispatched>>

(* The process is started again after it ended: the registry is a new     *)
(* empty Map and no connection is open; the two collections are kept.      *)
Restart ==
    /\ process = "down"
    /\ process' = "up"
    /\ userSockets' = [u \in Users |-> NoSocket]
    /\ tasks' = EmptyBag
    /\ UNCHANGED <<unhandled, conn, socketUserId, isOnline, lastSeen,
                   messages, nextId, emitted, clock, dispatched>>

----------------------------------------------------------------------------
(* user:online *)

UserOnline(s, userId) ==
    /\ Dispatch(s, "user:online")
    /\ userSockets' = [userSockets EXCEPT ![userId] = s]
    /\ socketUserId' = [socketUserId EXCEPT ![s] = userId]
    /\ tasks' = Spawn(Task("online", "update", s, userId, 0, NoMsg, 0))
    /\ UNCHANGED <<process, unhandled, conn, isOnline, lastSeen, messages,
                   nextId, emitted, clock>>

UserOnlineResumeRedelivers(t) ==
    /\ process = "up"
    /\ isOnline' = [isOnline EXCEPT ![t.userId] = TRUE]
    /\ emitted' = emitted (+) SetToBag(IoEmit("user:status", t.userId, TRUE))
           (+) SetToBag(UNION {IoTo("message:new", userSockets[t.userId], m, 0,
                                    NoUser) :
                                  m \in {x \in messages :
                                           /\ x.receiverId = t.userId
                                           /\ ~x.delivered
                                           /\ userSockets[t.userId] # NoSocket}})
    /\ tasks' = Finish(t)
    /\ UNCHANGED <<process, unhandled, conn, socketUserId, userSockets,
                   lastSeen, messages, nextId, clock, dispatched>>

UserOnlineResume(t) ==
    /\ process = "up"
    /\ isOnline' = [isOnline EXCEPT ![t.userId] = TRUE]
    /\ emitted' = emitted (+) SetToBag(IoEmit("user:status", t.userId, TRUE))
    /\ tasks' = Finish(t)
    /\ UNCHANGED <<process, unhandled, conn, socketUserId, userSockets,
                   lastSeen, messages, nextId, clock, dispatched>>

UserOnlineRejects(t) == UnhandledRejection(t)

----------------------------------------------------------------------------
(* disconnect *)

DisconnectUnchecked(s) ==
    /\ process = "up"
    /\ conn[s] = "open"
    /\ conn' = [conn EXCEPT ![s] = "closed"]
    /\ userSockets' = [u \in Users |->
                          IF u = socketUserId[s] THEN NoSocket
                          ELSE userSockets[u]]
    /\ \E now \in 1..(clock + 1) :
          /\ Now(now)
          /\ tasks' = Spawn(Task("disconnect", "update", s, socketUserId[s],
                                 now, NoMsg, 0))
    /\ UNCHANGED <<process, unhandled, socketUserId, isOnline, lastSeen,
                   messages, nextId, emitted, dispatched>>

Disconnect(s) ==
    /\ process = "up"
    /\ conn[s] = "open"
    /\ conn' = [conn EXCEPT ![s] = "closed"]
    /\ IF socketUserId[s] # NoUser
       THEN /\ userSockets' =
                  [userSockets EXCEPT ![socketUserId[s]] = NoSocket]
            /\ \E now \in 1..(clock + 1) :
                  /\ Now(now)
                  /\ tasks' = Spawn(Task("disconnect", "update", s,
                                         socketUserId[s], now, NoMsg, 0))
       ELSE UNCHANGED <<userSockets, tasks, clock>>
    /\ UNCHANGED <<process, unhandled, socketUserId, isOnline, lastSeen,
                   messages, nextId, emitted, dispatched>>

DisconnectResumeKeepsLastSeen(t) ==
    /\ process = "up"
    /\ isOnline' = [isOnline EXCEPT ![t.userId] = FALSE]
    /\ emitted' = emitted (+) SetToBag(IoEmit("user:status", t.userId, FALSE))
    /\ tasks' = Finish(t)
    /\ UNCHANGED <<process, unhandled, conn, socketUserId, userSockets,
                   lastSeen, messages, nextId, clock, dispatched>>

DisconnectResume(t) ==
    /\ process = "up"
    /\ isOnline' = [isOnline EXCEPT ![t.userId] = FALSE]
    /\ lastSeen' = [lastSeen EXCEPT ![t.userId] = t.now]
    /\ emitted' = emitted (+) SetToBag(IoEmit("user:status", t.userId, FALSE))
    /\ tasks' = Finish(t)
    /\ UNCHANGED <<process, unhandled, conn, socketUserId, userSockets,
                   messages, nextId, clock, dispatched>>

DisconnectRejects(t) == UnhandledRejection(t)

----------------------------------------------------------------------------
(* typing:start, typing:stop *)

TypingBroadcasts(s, type, from, to) ==
    /\ Dispatch(s, type)
    /\ emitted' =
           IF userSockets[to] # NoSocket
           THEN emitted (+)
                  SetToBag({Event(type, r, NoUser, FALSE, NoMsg, 0, from) :
                               r \in OpenSockets})
           ELSE emitted
    /\ UNCHANGED <<process, unhandled, conn, socketUserId, userSockets,
                   isOnline, lastSeen, messages, nextId, tasks, clock>>

Typing(s, type, from, to) ==
    /\ Dispatch(s, type)
    /\ emitted' =
           IF userSockets[to] # NoSocket
           THEN emitted (+) SetToBag(IoTo(type, userSockets[to], NoMsg, 0, from))
           ELSE emitted
    /\ UNCHANGED <<process, unhandled, conn, socketUserId, userSockets,
                   isOnline, lastSeen, messages, nextId, tasks, clock>>

TypingStart(s, from, to) == Typing(s, "typing:start", from, to)

TypingStop(s, from, to) == Typing(s, "typing:stop", from, to)

----------------------------------------------------------------------------
(* message:send *)

MessageSendEmitsFirst(s, senderId, receiverId, body) ==
    /\ Dispatch(s, "message:send")
    /\ nextId' = nextId + 1
    /\ \E now \in 1..(clock + 1) :
          /\ Now(now)
          /\ tasks' = Spawn(Task("send", "save", s, NoUser, 0,
                                 NewMessage(nextId, senderId, receiverId, body,
                                            now),
                                 nextId))
          /\ emitted' = emitted (+)
                SetToBag(IoTo("message:sent", s,
                              NewMessage(nextId, senderId, receiverId, body,
                                         now), 0, NoUser))
    /\ UNCHANGED <<process, unhandled, conn, socketUserId, userSockets,
                   isOnline, lastSeen, messages>>

MessageSend(s, senderId, receiverId, body) ==
    /\ Dispatch(s, "message:send")
    /\ nextId' = nextId + 1
    /\ \E now \in 1..(clock + 1) :
          /\ Now(now)
          /\ tasks' = Spawn(Task("send", "save", s, NoUser, 0,
                                 NewMessage(nextId, senderId, receiverId, body,
                                            now),
                                 nextId))
    /\ UNCHANGED <<process, unhandled, conn, socketUserId, userSockets,
                   isOnline, lastSeen, messages, emitted>>

MessageSendSavedWithoutAck(t) ==
    /\ process = "up"
    /\ Validates(t.msg)
    /\ messages' = messages \cup {t.msg}
    /\ IF userSockets[t.msg.receiverId] # NoSocket
       THEN /\ emitted' = emitted (+)
                  SetToBag(IoTo("message:new", userSockets[t.msg.receiverId],
                                t.msg, 0, NoUser))
            /\ tasks' = Step(t, "update")
       ELSE /\ emitted' = emitted
            /\ tasks' = Finish(t)
    /\ UNCHANGED <<process, unhandled, conn, socketUserId, userSockets,
                   isOnline, lastSeen, nextId, clock, dispatched>>

MessageSendSaved(t) ==
    /\ process = "up"
    /\ Validates(t.msg)
    /\ messages' = messages \cup {t.msg}
    /\ IF userSockets[t.msg.receiverId] # NoSocket
       THEN /\ emitted' = emitted (+)
                  SetToBag(IoTo("message:new", userSockets[t.msg.receiverId],
                                t.msg, 0, NoUser))
            /\ tasks' = Step(t, "update")
       ELSE /\ emitted' = emitted (+)
                  SetToBag(IoTo("message:sent", t.sock, t.msg, 0, NoUser))
            /\ tasks' = Finish(t)
    /\ UNCHANGED <<process, unhandled, conn, socketUserId, userSockets,
                   isOnline, lastSeen, nextId, clock, dispatched>>

MessageSendUpdatedWrongFlag(t) ==
    /\ process = "up"
    /\ messages' = FindByIdAndUpdate(t.messageId, "read")
    /\ emitted' = emitted (+)
           SetToBag(IoTo("message:sent", t.sock, t.msg, 0, NoUser))
    /\ tasks' = Finish(t)
    /\ UNCHANGED <<process, unhandled, conn, socketUserId, userSockets,
                   isOnline, lastSeen, nextId, clock, dispatched>>

MessageSendUpdated(t) ==
    /\ process = "up"
    /\ messages' = FindByIdAndUpdate(t.messageId, "delivered")
    /\ emitted' = emitted (+)
           SetToBag(IoTo("message:sent", t.sock, t.msg, 0, NoUser))
    /\ tasks' = Finish(t)
    /\ UNCHANGED <<process, unhandled, conn, socketUserId, userSockets,
                   isOnline, lastSeen, nextId, clock, dispatched>>

(* catch (err): the rejection of save() or of the delivered update is      *)
(* logged and the handler ends.                                            *)
MessageSendCaught(t) ==
    /\ process = "up"
    /\ tasks' = Finish(t)
    /\ UNCHANGED <<process, unhandled, conn, socketUserId, userSockets,
                   isOnline, lastSeen, messages, nextId, emitted, clock,
                   dispatched>>

----------------------------------------------------------------------------
(* message:read *)

MessageRead(s, messageId) ==
    /\ Dispatch(s, "message:read")
    /\ tasks' = Spawn(Task("read", "update", s, NoUser, 0, NoMsg, messageId))
    /\ UNCHANGED <<process, unhandled, conn, socketUserId, userSockets,
                   isOnline, lastSeen, messages, nextId, emitted, clock>>

MessageReadResumeNotifiesReceiver(t) ==
    /\ process = "up"
    /\ messages' = FindByIdAndUpdate(t.messageId, "read")
    /\ emitted' =
           IF /\ HasId(t.messageId)
              /\ userSockets[FindById(t.messageId).receiverId] # NoSocket
           THEN emitted (+)
                  SetToBag(IoTo("message:read",
                                userSockets[FindById(t.messageId).receiverId],
                                NoMsg, t.messageId, NoUser))
           ELSE emitted
    /\ tasks' = Finish(t)
    /\ UNCHANGED <<process, unhandled, conn, socketUserId, userSockets,
                   isOnline, lastSeen, nextId, clock, dispatched>>

MessageReadResumeUnchecked(t) ==
    /\ process = "up"
    /\ messages' = FindByIdAndUpdate(t.messageId, "read")
    /\ emitted' =
           IF HasId(t.messageId)
           THEN IF userSockets[FindById(t.messageId).senderId] # NoSocket
                THEN emitted (+)
                       SetToBag(IoTo("message:read",
                                     userSockets[FindById(t.messageId).senderId],
                                     NoMsg, t.messageId, NoUser))
                ELSE emitted
           ELSE emitted (+)
                  SetToBag(IoTo("message:read", t.sock, NoMsg, t.messageId,
                                NoUser))
    /\ tasks' = Finish(t)
    /\ UNCHANGED <<process, unhandled, conn, socketUserId, userSockets,
                   isOnline, lastSeen, nextId, clock, dispatched>>

MessageReadResume(t) ==
    /\ process = "up"
    /\ messages' = FindByIdAndUpdate(t.messageId, "read")
    /\ emitted' =
           IF /\ HasId(t.messageId)
              /\ userSockets[FindById(t.messageId).senderId] # NoSocket
           THEN emitted (+)
                  SetToBag(IoTo("message:read",
                                userSockets[FindById(t.messageId).senderId],
                                NoMsg, t.messageId, NoUser))
           ELSE emitted
    /\ tasks' = Finish(t)
    /\ UNCHANGED <<process, unhandled, conn, socketUserId, userSockets,
                   isOnline, lastSeen, nextId, clock, dispatched>>

MessageReadRejects(t) == UnhandledRejection(t)

----------------------------------------------------------------------------

Next ==
    \/ \E s \in Sockets : Connection(s)
    \/ Restart
    \/ \E s \in Sockets, u \in Users : UserOnline(s, u)
    \/ \E t \in Pending("online", "update") : UserOnlineResume(t)
    \/ \E t \in Pending("online", "update") : UserOnlineRejects(t)
    \/ \E s \in Sockets : Disconnect(s)
    \/ \E t \in Pending("disconnect", "update") : DisconnectResume(t)
    \/ \E t \in Pending("disconnect", "update") : DisconnectRejects(t)
    \/ \E s \in Sockets, to \in Users : TypingStart(s, socketUserId[s], to)
    \/ \E s \in Sockets, to \in Users : TypingStop(s, socketUserId[s], to)
    \/ \E s \in Sockets, a \in Users, body \in Bodies :
           \E b \in Users \ {a} : MessageSend(s, a, b, body)
    \/ \E t \in Pending("send", "save") : MessageSendSaved(t)
    \/ \E t \in Pending("send", "save") \cup Pending("send", "update") :
           MessageSendCaught(t)
    \/ \E t \in Pending("send", "update") : MessageSendUpdated(t)
    \/ \E s \in Sockets, id \in 1..nextId : MessageRead(s, id)
    \/ \E t \in Pending("read", "update") : MessageReadResume(t)
    \/ \E t \in Pending("read", "update") : MessageReadRejects(t)

Spec == Init /\ [][Next]_vars

----------------------------------------------------------------------------
(* Steps of a handler, told by the bookkeeping of tasks and not by what    *)
(* the handler writes.                                                      *)

(* The await of task t returns and the rest of its handler runs to the end. *)
Resumes(t) ==
    /\ BagIn(t, tasks)
    /\ tasks' = Finish(t)
    /\ unhandled' = unhandled
    /\ process' = "up"

(* The disconnect handler of connection s is dispatched. *)
Disconnects(s) == conn[s] = "open" /\ conn'[s] = "closed" /\ process' = "up"

StatusEvent(s, u, online) ==
    [type |-> "user:status", to |-> s, live |-> TRUE, userId |-> u,
     isOnline |-> online, msg |-> NoMsg, messageId |-> 0, from |-> NoUser]

Emitted == BagToSet(emitted)

----------------------------------------------------------------------------
(* C1.  A stale disconnect does not evict a newer registration: when       *)
(* connection h1, which announced u, disconnects while the registry maps u *)
(* to another connection h2 that announced u later and is still open, the  *)
(* registry still maps u to h2 after h1's disconnect handler has run.      *)
(* The code deletes the entry of u whatever connection it names.           *)

StaleDisconnectKeepsNewer ==
    [][\A h1 \in Sockets :
          LET u == socketUserId[h1]
              h2 == userSockets[u]
          IN (/\ Disconnects(h1)
              /\ u # NoUser
              /\ h2 \notin {NoSocket, h1}
              /\ conn[h2] = "open"
              /\ socketUserId[h2] = u)
             => userSockets'[u] = h2]_vars

----------------------------------------------------------------------------
(* C2.  Every stored message record that is read is delivered.  The        *)
(* message:read handler sets read without looking at delivered.            *)

ReadImpliesDelivered == \A m \in messages : m.read => m.delivered

----------------------------------------------------------------------------
(* C3 as stated.  When the disconnect handler of a connection that         *)
(* announced u completes, the registry does not resolve u, the User        *)
(* record of u has isOnline = false and the time of the disconnect as      *)
(* lastSeen, and every open connection has been sent user:status           *)
(* {userId: u, isOnline: false}.                                           *)

DisconnectLeavesUserUnregistered ==
    [][\A t \in Pending("disconnect", "update") :
          Resumes(t) =>
             /\ userSockets'[t.userId] = NoSocket
             /\ isOnline'[t.userId] = FALSE
             /\ lastSeen'[t.userId] = t.now
             /\ emitted' = emitted (+)
                   SetToBag({StatusEvent(s, t.userId, FALSE) :
                                s \in OpenSockets})]_vars

(* C3 as amended.  The disconnect of a connection whose identity is u      *)
(* removes the registry entry of u at once and reads the time; when the    *)
(* update of the User record returns, isOnline = false and that time as    *)
(* lastSeen have been written and every connection open at that moment is  *)
(* sent user:status {userId: u, isOnline: false}; at that moment the       *)
(* registry resolves u to no connection or to another connection, one that *)
(* announced u after the disconnect, never to the closed one.              *)

DisconnectHandlerEffects ==
    [][/\ \A s \in Sockets :
             (Disconnects(s) /\ socketUserId[s] # NoUser) =>
                /\ userSockets'[socketUserId[s]] = NoSocket
                /\ clock' > clock
                /\ tasks' = tasks (+)
                      SetToBag({Task("disconnect", "update", s,
                                     socketUserId[s], clock', NoMsg, 0)})
       /\ \A t \in Pending("disconnect", "update") :
             Resumes(t) =>
                /\ userSockets'[t.userId] # t.sock
                /\ userSockets'[t.userId] # NoSocket =>
                      /\ conn[userSockets'[t.userId]] # "none"
                      /\ socketUserId[userSockets'[t.userId]] # NoUser
                /\ isOnline'[t.userId] = FALSE
                /\ lastSeen'[t.userId] = t.now
                /\ emitted' = emitted (+)
                      SetToBag({StatusEvent(s, t.userId, FALSE) :
                                   s \in OpenSockets})]_vars

DisconnectHandlerCompleted ==
    \E e \in Emitted :
       /\ e.type = "user:status"
       /\ ~e.isOnline
       /\ lastSeen[e.userId] > 0
       /\ ~isOnline[e.userId]
       /\ userSockets[e.userId] = NoSocket
       /\ conn[e.to] = "open"

----------------------------------------------------------------------------
(* The events a handler is expected to emit, written out field by field.   *)

SentEvent(to, msg) ==
    [type |-> "message:sent", to |-> to, live |-> conn[to] = "open",
     userId |-> NoUser, isOnline |-> FALSE, msg |-> msg, messageId |-> 0,
     from |-> NoUser]

NewEvent(to, msg) ==
    [type |-> "message:new", to |-> to, live |-> conn[to] = "open",
     userId |-> NoUser, isOnline |-> FALSE, msg |-> msg, messageId |-> 0,
     from |-> NoUser]

ReadEvent(to, messageId) ==
    [type |-> "message:read", to |-> to, live |-> conn[to] = "open",
     userId |-> NoUser, isOnline |-> FALSE, msg |-> NoMsg,
     messageId |-> messageId, from |-> NoUser]

(* save() of the send task t returns: its record enters the Message store. *)
Inserts(t) ==
    /\ BagIn(t, tasks)
    /\ ~HasId(t.messageId)
    /\ \E m \in messages' : m.id = t.messageId

(* The send task t ends in the handler's catch: nothing was inserted or    *)
(* updated for it in this step and no rejection escaped.                    *)
Catches(t) ==
    /\ BagIn(t, tasks)
    /\ tasks' = Finish(t)
    /\ unhandled' = unhandled
    /\ process' = "up"
    /\ messages' = messages

----------------------------------------------------------------------------
(* C4.  message:send while the registry has no entry for the receiver:     *)
(* the record is stored with delivered = false, the sending connection is  *)
(* sent message:sent carrying the stored record (its id and timestamp),    *)
(* no message:new is emitted and the handler ends; a stored record for     *)
(* which no message:new was ever emitted has delivered = false for good.   *)

SendToUnregisteredReceiver ==
    /\ [][\A t \in Pending("send", "save") :
             (Inserts(t) /\ userSockets[t.msg.receiverId] = NoSocket) =>
                /\ messages' = messages \cup {t.msg}
                /\ t.msg.delivered = FALSE
                /\ t.msg.id >= 1
                /\ t.msg.timestamp >= 1
                /\ emitted' = emitted (+) SetToBag({SentEvent(t.sock, t.msg)})
                /\ tasks' = Finish(t)]_vars
    /\ [](\A m \in messages :
             (\A e \in Emitted : e.type = "message:new" => e.msg.id # m.id)
                => ~m.delivered)

SentToUnregisteredReceiver ==
    \E e \in Emitted :
       /\ e.type = "message:sent"
       /\ e.msg \in messages
       /\ ~e.msg.delivered
       /\ e.msg.id >= 1
       /\ e.msg.timestamp >= 1
       /\ \A n \in Emitted : n.type # "message:new"
       /\ tasks = EmptyBag

----------------------------------------------------------------------------
(* C5.  message:send while the registry has an entry for the receiver:     *)
(* when save() returns, message:new carrying the stored record is emitted  *)
(* to the registered connection; when the delivered update returns, the    *)
(* stored record has delivered = true and the sending connection is sent   *)
(* message:sent carrying the record message:new carried (same id, same     *)
(* timestamp).  Once both events of a message are out its stored record    *)
(* has delivered = true.                                                   *)

SendToRegisteredReceiver ==
    /\ [][/\ \A t \in Pending("send", "save") :
                (Inserts(t) /\ userSockets[t.msg.receiverId] # NoSocket) =>
                   /\ messages' = messages \cup {t.msg}
                   /\ emitted' = emitted (+)
                         SetToBag({NewEvent(userSockets[t.msg.receiverId],
                                            t.msg)})
                   /\ tasks' = Step(t, "update")
          /\ \A t \in Pending("send", "update") :
                (/\ Resumes(t)
                 /\ messages' # messages \/ emitted' # emitted) =>
                   /\ \E m \in messages' : m.id = t.messageId /\ m.delivered
                   /\ emitted' = emitted (+)
                         SetToBag({SentEvent(t.sock, t.msg)})]_vars
    /\ [](\A e \in Emitted, n \in Emitted :
             (/\ e.type = "message:sent"
              /\ n.type = "message:new"
              /\ e.msg.id = n.msg.id) =>
                /\ e.msg = n.msg
                /\ \E m \in messages : m.id = e.msg.id /\ m.delivered)

SentToRegisteredReceiver ==
    \E e \in Emitted, n \in Emitted :
       /\ e.type = "message:sent"
       /\ n.type = "message:new"
       /\ e.msg.id = n.msg.id
       /\ e.msg.timestamp = n.msg.timestamp
       /\ n.to = userSockets[n.msg.receiverId]
       /\ n.live
       /\ \E m \in messages : m.id = e.msg.id /\ m.delivered

----------------------------------------------------------------------------
(* C6.  When the insert of a message:send fails, the handler sends an      *)
(* event telling of the failure to the sending connection, emits neither   *)
(* message:sent nor message:new and leaves the Message store and the       *)
(* registry as they were.  The catch of the handler only logs.             *)

SendFailureIsSignalled ==
    [][\A t \in Pending("send", "save") :
          Catches(t) =>
             /\ \E e \in BagToSet(emitted') :
                   /\ CopiesIn(e, emitted') > CopiesIn(e, emitted)
                   /\ e.to = t.sock
                   /\ e.type \notin {"message:sent", "message:new"}
             /\ \A e \in BagToSet(emitted') :
                   e.type \in {"message:sent", "message:new"} =>
                      CopiesIn(e, emitted') = CopiesIn(e, emitted)
             /\ messages' = messages
             /\ userSockets' = userSockets]_vars

----------------------------------------------------------------------------
(* C7.  When the update of a message:read for a stored message returns,    *)
(* the stored record has read = true and nothing else of the store has     *)
(* changed; if the registry has an entry for the senderId of the record,   *)
(* exactly one message:read naming the id is emitted, to that connection   *)
(* and to no other; if it has none, nothing is emitted.                    *)

ReadReceiptNotifiesSender ==
    [][\A t \in Pending("read", "update") :
          (Resumes(t) /\ HasId(t.messageId)) =>
             LET m == FindById(t.messageId)
                 h == userSockets[m.senderId]
             IN /\ messages' = (messages \ {m}) \cup {[m EXCEPT !.read = TRUE]}
                /\ emitted' =
                      IF h # NoSocket
                      THEN emitted (+) SetToBag({ReadEvent(h, t.messageId)})
                      ELSE emitted]_vars

SenderNotifiedOfRead ==
    \E e \in Emitted :
       /\ e.type = "message:read"
       /\ CopiesIn(e, emitted) = 1
       /\ \E m \in messages :
             /\ m.id = e.messageId
             /\ m.read
             /\ userSockets[m.senderId] = e.to
       /\ \E s \in OpenSockets :
             /\ s # e.to
             /\ \A o \in Emitted : o.type = "message:read" => o.to # s

----------------------------------------------------------------------------
(* C8.  When the update of a message:read whose id names no stored record  *)
(* returns, nothing is emitted, no stored record and no registry entry     *)
(* changes, and no connection is closed.                                   *)

ReadReceiptForUnknownId ==
    [][\A t \in Pending("read", "update") :
          (Resumes(t) /\ ~HasId(t.messageId)) =>
             /\ emitted' = emitted
             /\ messages' = messages
             /\ userSockets' = userSockets
             /\ isOnline' = isOnline
             /\ conn' = conn]_vars

UnknownIdReadHandled ==
    /\ dispatched["message:read"] >= 1
    /\ Pending("read", "update") = {}
    /\ messages = {}
    /\ unhandled = 0
    /\ process = "up"
    /\ OpenSockets # {}

----------------------------------------------------------------------------
(* C9.  The conversation id does not depend on the order of the two ids:   *)
(* ConversationId(a, b) = ConversationId(b, a) for all ids, and the id     *)
(* stored with a message on the send path is the id the history query and  *)
(* the user list compute for its two participants, whichever of them asks. *)

ConversationIdOrderIndependent ==
    /\ \A a \in Ids(MaxIdLen), b \in Ids(MaxIdLen) :
          ConversationId(a, b) = ConversationId(b, a)
    /\ \A m \in messages :
          /\ m.conversationId = HistoryConversationId(m.senderId, m.receiverId)
          /\ m.conversationId = HistoryConversationId(m.receiverId, m.senderId)
          /\ m.conversationId = UsersConversationId(m.senderId, m.receiverId)
          /\ m.conversationId = UsersConversationId(m.receiverId, m.senderId)

StoredWithSwappedIds ==
    \E m \in messages :
       /\ StrLess(m.receiverId, m.senderId)
       /\ m.conversationId = m.receiverId \o <<Sep>> \o m.senderId

----------------------------------------------------------------------------
(* C10.  When user:online with id u is dispatched on a connection, the     *)
(* registry maps u to that connection whatever it held before and no       *)
(* other entry changes; when the update of the User record returns, u has  *)
(* isOnline = true and user:status {userId: u, isOnline: true} is emitted  *)
(* once to every connection open at that moment, the ones that have        *)
(* announced no identity among them.                                       *)

AnnounceEffects ==
    [][/\ \A s \in Sockets, u \in Users :
             (/\ dispatched'["user:online"] = dispatched["user:online"] + 1
              /\ tasks' = Spawn(Task("online", "update", s, u, 0, NoMsg, 0))) =>
                /\ userSockets' = [userSockets EXCEPT ![u] = s]
                /\ socketUserId'[s] = u
       /\ \A t \in Pending("online", "update") :
             Resumes(t) =>
                /\ isOnline'[t.userId] = TRUE
                /\ emitted' = emitted (+)
                      SetToBag({StatusEvent(s, t.userId, TRUE) :
                                   s \in OpenSockets})]_vars

AnnouncedToUnidentifiedPeer ==
    \E e \in Emitted :
       /\ e.type = "user:status"
       /\ e.isOnline
       /\ socketUserId[e.to] = NoUser
       /\ isOnline[e.userId]
       /\ userSockets[e.userId] \notin {NoSocket, e.to}

----------------------------------------------------------------------------
(* C11.  A typing:start or typing:stop is forwarded, under its own name    *)
(* and carrying from, to the connection the registry holds for its target  *)
(* and to no other; when the registry holds none for the target nothing    *)
(* is emitted; the Message store, the User store and the registry are      *)
(* left as they were and no handler stays in flight.                       *)

TypingEvent(type, to, from) ==
    [type |-> type, to |-> to, live |-> conn[to] = "open", userId |-> NoUser,
     isOnline |-> FALSE, msg |-> NoMsg, messageId |-> 0, from |-> from]

----------------------------------------------------------------------------
(* C12.  No rejection of a store call leaves its handler: none reaches     *)
(* the process as an unhandled rejection and the process stays up.  The    *)
(* user:online, message:read and disconnect handlers await their store     *)
(* call outside any try.                                                   *)

NoProcessLevelFailure == unhandled = 0 /\ process = "up"

----------------------------------------------------------------------------
(* C13.  A message:send whose record was inserted ends with message:sent   *)
(* carrying that record emitted to the sending connection, also when the   *)
(* delivered update rejects; the record then stays stored with             *)
(* delivered = false.  The code leaves the try at the rejected update,     *)
(* before the emit.                                                        *)

InsertedSendIsAcknowledged ==
    [][\A t \in Pending("send", "update") :
          (/\ BagIn(t, tasks)
           /\ tasks' = Finish(t)
           /\ unhandled' = unhandled
           /\ process' = "up") =>
             /\ emitted' = emitted (+) SetToBag({SentEvent(t.sock, t.msg)})
             /\ messages' = messages =>
                   \E m \in messages : m.id = t.messageId /\ ~m.delivered]_vars

----------------------------------------------------------------------------
(* C14.  Every stored record with delivered = true was pushed as           *)
(* message:new to a connection that was open at that moment.  A registry   *)
(* entry left behind by a closed connection (C20) makes the handler emit   *)
(* to the closed connection and set delivered all the same.                *)

DeliveredOnlyIfPushedLive ==
    \A m \in messages :
       m.delivered =>
          \E e \in Emitted :
             e.type = "message:new" /\ e.msg.id = m.id /\ e.live

----------------------------------------------------------------------------
(* C15.  Every message:new and message:sent emitted carries a record that  *)
(* is in the Message store, as it was inserted: delivered = false,         *)
(* read = false, and equal to the stored record but for these two flags.   *)

PersistBeforeDeliver ==
    \A e \in Emitted :
       e.type \in {"message:new", "message:sent"} =>
          /\ e.msg.delivered = FALSE
          /\ e.msg.read = FALSE
          /\ \E m \in messages :
                /\ m.id = e.msg.id
                /\ [m EXCEPT !.delivered = FALSE, !.read = FALSE] = e.msg

PushedRecordIsStored ==
    \E e \in Emitted, a \in Emitted :
       /\ e.type = "message:new"
       /\ a.type = "message:sent"
       /\ a.msg = e.msg
       /\ \E m \in messages : m.id = e.msg.id /\ m # e.msg

----------------------------------------------------------------------------
(* C16.  The disconnect of a connection that announced no identity         *)
(* changes no registry entry and no User record, emits nothing and leaves  *)
(* no handler in flight.                                                   *)

UnannouncedDisconnectIsSilent ==
    [][\A s \in Sockets :
          (Disconnects(s) /\ socketUserId[s] = NoUser) =>
             /\ userSockets' = userSockets
             /\ isOnline' = isOnline
             /\ lastSeen' = lastSeen
             /\ emitted' = emitted
             /\ tasks' = tasks]_vars

UnannouncedDisconnected ==
    /\ process = "up"
    /\ unhandled = 0
    /\ \E s \in Sockets, u \in Users :
          /\ conn[s] = "closed"
          /\ socketUserId[s] = NoUser
          /\ userSockets[u] # NoSocket
          /\ isOnline[u]
          /\ \A e \in Emitted : ~(e.type = "user:status" /\ ~e.isOnline)

----------------------------------------------------------------------------
(* C17.  No retry: the store holds at most one record per message:send     *)
(* dispatched and per id; at most one message:new and one message:sent     *)
(* exist per message id; a message:new is emitted only in the step where   *)
(* save() of that message returns, so a message stored while its receiver  *)
(* had no registry entry is not pushed when the receiver announces later.  *)

AtMostOnceDelivery ==
    /\ [](/\ Cardinality(messages) <= dispatched["message:send"]
          /\ \A m \in messages, n \in messages : m.id = n.id => m = n
          /\ \A e \in Emitted :
                e.type \in {"message:new", "message:sent"} =>
                   /\ CopiesIn(e, emitted) = 1
                   /\ \A o \in Emitted :
                         (o.type = e.type /\ o.msg.id = e.msg.id) => o = e)
    /\ [][\A e \in BagToSet(emitted') :
             (/\ e.type = "message:new"
              /\ CopiesIn(e, emitted') > CopiesIn(e, emitted)) =>
                \E t \in Pending("send", "save") :
                   Inserts(t) /\ t.messageId = e.msg.id]_vars

StoredOfflineNotPushedLater ==
    \E m \in messages :
       /\ ~m.delivered
       /\ userSockets[m.receiverId] # NoSocket
       /\ conn[userSockets[m.receiverId]] = "open"
       /\ isOnline[m.receiverId]
       /\ tasks = EmptyBag
       /\ \E e \in Emitted : e.type = "message:sent" /\ e.msg.id = m.id
       /\ \A e \in Emitted : e.type # "message:new"

----------------------------------------------------------------------------
(* C18.  After the process is started again the registry resolves no user  *)
(* and no User record has isOnline = true.  The registry is rebuilt        *)
(* empty, but nothing resets the isOnline a user had when the process      *)
(* ended.                                                                  *)

RestartLeavesAllOffline ==
    [][(process = "down" /\ process' = "up") =>
          \A u \in Users : userSockets'[u] = NoSocket /\ ~isOnline'[u]]_vars

----------------------------------------------------------------------------
(* C19.  While no user:online and no disconnect handler is in flight, and  *)
(* no store call has ever rejected, isOnline of a user is true exactly     *)
(* when the registry has an entry for the user.  The update of a           *)
(* disconnect and the update of a user:online for the same user land in    *)
(* either order, whatever the registry was left as.                        *)

PresenceAgreesWithRegistry ==
    (/\ process = "up"
     /\ unhandled = 0
     /\ Pending("online", "update") = {}
     /\ Pending("disconnect", "update") = {}) =>
       \A u \in Users : isOnline[u] <=> userSockets[u] # NoSocket

----------------------------------------------------------------------------
(* C20.  Every registry entry names a connection that is open.  A          *)
(* connection that announced two ids leaves the entry of the first behind  *)
(* when it disconnects: only socket.userId, the last one, is deleted.      *)

NoStaleRegistryEntries ==
    \A u \in Users :
       userSockets[u] # NoSocket => conn[userSockets[u]] = "open"

====
